---- MODULE Spec2Model ----
(***************************************************************************)
(* Model of the Connection Manager of src/src/context/WebSocketContext.tsx *)
(* (the WebSocketProvider component).                                      *)
(*                                                                         *)
(* The provider is a React function component: its state lives in useState *)
(* cells, and every callback is a closure over the values of ONE render.   *)
(* A callback therefore reads the state as it was when the closure was     *)
(* created (per the useCallback dependency lists), while setState writes   *)
(* go to the live cells.  The model keeps both: `st` is the live state,    *)
(* and a "scope" is the snapshot of the cells a closure reads.             *)
(***************************************************************************)
EXTENDS Integers, Sequences, FiniteSets, TLC

(* ---------------- program constants ---------------- *)
MAX_RECONNECT_ATTEMPTS == 5
BASE_RECONNECT_DELAY == 3000
MAX_RECONNECT_DELAY == 30000
NORMAL_CLOSURE == 1000
ABNORMAL_CLOSURE == 1006

(* ---------------- bounds of the model ---------------- *)
\* slots for Transports, reconnect timers and ping intervals that are alive
\* at the same time, and connect() calls made in one task
MaxSockets == 2
MaxTimers == 2
MaxPings == 2
MaxRapidCalls == 2
\* tasks (calls, events, timer firings) in one run of Spec
MaxSteps == 7
\* callbacks a consumer can register, and inbound frames in one run
MaxCallbacks == 2
MaxFrames == 2
JitterSteps == 4
MaxExponent == 7

\* AppStateStatus; "inactive" is left out: the code tests it only together
\* with "background" (line 71) or as "not active" (lines 211, 332)
AppStates == {"active", "background"}
CloseCodes == {NORMAL_CLOSURE, ABNORMAL_CLOSURE}

(* ---------------- inbound frames ---------------- *)
\* a JSON value, as far as onmessage looks into it: null, or a value whose
\* `type` can be read
NullValue == [kind |-> "null", type |-> ""]
Message(type) == [kind |-> "object", type |-> type]

\* the text frames a server sends in the model
Frames == {"{\"type\":\"photo\"}", "{\"type\":\"pong\"}", "null", "photo"}

\* JSON.parse(event.data): the value, or a SyntaxError
JsonParse(text) ==
  CASE text = "{\"type\":\"photo\"}" ->
         [ok |-> TRUE, value |-> Message("photo")]
    [] text = "{\"type\":\"pong\"}" ->
         [ok |-> TRUE, value |-> Message("pong")]
    [] text = "null" -> [ok |-> TRUE, value |-> NullValue]
    [] OTHER -> [ok |-> FALSE, value |-> NullValue]

Callbacks == 1..MaxCallbacks

(* ---------------- outbound envelopes ---------------- *)
\* JavaScript values a payload field can hold, as far as JSON.stringify
\* tells them apart.  A number is kept by its decimal text; "NaN" stands for
\* the numbers that are not finite.  An object is plain data, or "circular"
\* when it refers to itself.
JsNumber(v) == [kind |-> "number", v |-> v]
JsString(v) == [kind |-> "string", v |-> v]
JsObject(v) == [kind |-> "object", v |-> v]
JsUndefined == [kind |-> "undefined", v |-> ""]
JsNull == [kind |-> "null", v |-> ""]

\* new Date().toISOString()
Now == JsString("2026-01-01T00:00:00.000Z")

\* the payload `{}` (the default of send's second parameter)
EmptyData == [k \in {} |-> JsUndefined]

\* { type, ...data, timestamp }: a later key replaces an earlier one
Envelope(type, data) ==
  [k \in {"type", "timestamp"} \cup DOMAIN data |->
     IF k = "timestamp" THEN Now
     ELSE IF k \in DOMAIN data THEN data[k]
     ELSE JsString(type)]

\* JSON.stringify(object), by the JSON document it produces: a circular
\* value throws, an undefined field is left out, a number that is not finite
\* becomes null
JsonStringify(obj) ==
  IF \E k \in DOMAIN obj : obj[k] = JsObject("circular")
  THEN [ok |-> FALSE, json |-> EmptyData]
  ELSE [ok |-> TRUE,
        json |-> [k \in {x \in DOMAIN obj : obj[x] # JsUndefined} |->
                    IF obj[k] = JsNumber("NaN") THEN JsNull ELSE obj[k]]]

\* arguments of the model's calls
Coordinates == {JsNumber("48.8584"), JsNumber("2.2945"), JsNumber("NaN")}
PhotoIds == {JsString("p1"), JsNumber("7")}
Metadata == {JsUndefined, JsObject("{iso:100}"), JsObject("circular")}

\* ---- the numbers of the backoff delay, as exact fractions <<num, den>> ----
RECURSIVE Gcd(_, _)
Gcd(a, b) == IF b = 0 THEN a ELSE Gcd(b, a % b)

Rat(n, d) == <<n \div Gcd(n, d), d \div Gcd(n, d)>>
RatAdd(x, y) == Rat(x[1] * y[2] + y[1] * x[2], x[2] * y[2])
RatMul(x, y) == Rat(x[1] * y[1], x[2] * y[2])
RatLeq(x, y) == x[1] * y[2] <= y[1] * x[2]
RatMin(x, y) == IF RatLeq(x, y) THEN x ELSE y

\* Math.pow(b, n) for a whole n >= 0
RECURSIVE MathPow(_, _)
MathPow(b, n) == IF n = 0 THEN Rat(1, 1) ELSE RatMul(b, MathPow(b, n - 1))

\* Math.random() yields a number in [0, 1): the model draws k / JitterSteps
Randoms == {Rat(k, JitterSteps) : k \in 0..(JitterSteps - 1)}

\* (mutant) the delay before jitter without its cap
BackoffBase_Uncapped(reconnectAttempts) ==
  RatMul(Rat(BASE_RECONNECT_DELAY, 1),
         MathPow(Rat(3, 2), reconnectAttempts))

\* Math.min(30000, BASE_RECONNECT_DELAY * Math.pow(1.5, reconnectAttempts))
BackoffBase(reconnectAttempts) ==
  RatMin(Rat(MAX_RECONNECT_DELAY, 1),
         RatMul(Rat(BASE_RECONNECT_DELAY, 1),
                MathPow(Rat(3, 2), reconnectAttempts)))

\* 0.8 + Math.random() * 0.4
JitterFactor(random) == RatAdd(Rat(8, 10), RatMul(random, Rat(4, 10)))

\* the delay handed to setTimeout, in milliseconds
Delay(reconnectAttempts, random) ==
  RatMul(BackoffBase(reconnectAttempts), JitterFactor(random))

VARIABLES
  st,        \* the useState cells of the provider (live values)
  spPing,    \* pingInterval as captured by the memoised startPingInterval
  sr,        \* render captured by the memoised scheduleReconnect
  appEff,    \* connect closure captured by the AppState listener effect
  netEff,    \* connect closure captured by the NetInfo listener effect
  socks,     \* every WebSocket created so far: readyState + handler scope
  timers,    \* every setTimeout created by scheduleReconnect
  pings,     \* every setInterval created by startPingInterval
  mounted,   \* the mount effect has run
  batched,   \* the build batches the setState calls of one task
  ev,        \* observation of the last task that ran
  hist,      \* observations accumulated over the run
  steps      \* tasks run so far (counted in Spec only)

vars == <<st, spPing, sr, appEff, netEff, socks, timers, pings, mounted,
          batched, ev, hist, steps>>

(* ---------------- scopes (what a closure sees) ---------------- *)
\* the cells read by connect and by the handlers it installs, except the
\* reconnect cells
Base(s, sp) ==
  [socket |-> s.socket, isConnecting |-> s.isConnecting,
   isNetworkAvailable |-> s.isNetworkAvailable, appState |-> s.appState,
   pingInterval |-> s.pingInterval, spPing |-> sp,
   listeners |-> s.listeners]

\* the closure scope of connect as created in one render
MkScope(b, timer, attempts, srb) ==
  [socket |-> b.socket, isConnecting |-> b.isConnecting,
   isNetworkAvailable |-> b.isNetworkAvailable, appState |-> b.appState,
   pingInterval |-> b.pingInterval, spPing |-> b.spPing,
   listeners |-> b.listeners,
   reconnectTimer |-> timer, reconnectAttempts |-> attempts, sr |-> srb]

NullBase ==
  [socket |-> 0, isConnecting |-> FALSE, isNetworkAvailable |-> FALSE,
   appState |-> "active", pingInterval |-> 0, spPing |-> 0,
   listeners |-> << >>]

NullScope == MkScope(NullBase, 0, 0, NullBase)

\* the scope of the render the state was last rendered in
CurScope(w) ==
  MkScope(Base(w.rst, w.spPing), w.rst.reconnectTimer,
          w.rst.reconnectAttempts, w.sr)

\* the connect closure that a scheduleReconnect closure of scope X calls:
\* the connect of the render in which scheduleReconnect was last re-created
ConnectOfScheduler(X) ==
  MkScope(X.sr, X.reconnectTimer, X.reconnectAttempts, X.sr)

(* ---------------- rendering ---------------- *)
\* one render: re-create the memoised callbacks whose dependencies changed
\* and re-run the effects whose dependencies changed
Rerender(w) ==
  IF w.st = w.rst THEN w
  ELSE
    LET s == w.st
        r == w.rst
        sp == IF s.socket # r.socket THEN s.pingInterval ELSE w.spPing
        b == Base(s, sp)
        nsr == IF \/ s.reconnectAttempts # r.reconnectAttempts
                  \/ s.reconnectTimer # r.reconnectTimer
               THEN b ELSE w.sr
        X == MkScope(b, s.reconnectTimer, s.reconnectAttempts, nsr)
    IN [w EXCEPT
          !.rst = s, !.spPing = sp, !.sr = nsr,
          !.appEff =
            IF <<s.appState, s.isConnected, s.isConnecting,
                 s.isNetworkAvailable>>
               # <<r.appState, r.isConnected, r.isConnecting,
                    r.isNetworkAvailable>>
            THEN X ELSE @,
          !.netEff =
            IF <<s.isNetworkAvailable, s.isConnected, s.isConnecting>>
               # <<r.isNetworkAvailable, r.isConnected, r.isConnecting>>
            THEN X ELSE @]

\* a useState setter: writes the cell; without batching the component
\* re-renders at once
SetState(w, f, v) ==
  LET w2 == [w EXCEPT !.st[f] = v]
  IN IF batched THEN w2 ELSE Rerender(w2)

RECURSIVE SetStates(_, _)
SetStates(w, ups) ==
  IF Len(ups) = 0 THEN w
  ELSE SetStates(SetState(w, ups[1][1], ups[1][2]), Tail(ups))

(* ---------------- platform handles ---------------- *)
\* A handle is a slot number; 0 is null and -1 is the handle of an object
\* that is gone (a fired or cleared timer, a closed socket): the code only
\* tests such a handle for truthiness, passes it to clearTimeout /
\* clearInterval (no effect) or reads readyState (never OPEN again).
\* A slot is reused only after the task that released it has ended.
FreeSock ==
  [readyState |-> "FREE", scope |-> NullScope, disc |-> FALSE,
   promise |-> "none"]
FreeTimer ==
  [state |-> "free", nextAttempt |-> 0, exponent |-> 0, delay |-> Rat(0, 1),
   conn |-> NullScope,
   ownerDisc |-> FALSE]
FreePing ==
  [state |-> "free", socket |-> 0, stop |-> 0, owner |-> 0,
   ownerDisc |-> FALSE]

FreeSlot(free) ==
  IF free = {} THEN 0
  ELSE CHOOSE i \in free : \A j \in free : i <= j

ClearTimeout(w, t) ==
  IF t > 0 /\ w.timers[t].state = "pending"
  THEN [w EXCEPT !.timers[t].state = "dead"]
  ELSE w

ClearInterval(w, p) ==
  IF p > 0 /\ w.pings[p].state = "active"
  THEN [w EXCEPT !.pings[p].state = "dead"]
  ELSE w

IsOpen(w, s) == s > 0 /\ w.socks[s].readyState = "OPEN"

(* ---------------- the callbacks of the provider ---------------- *)
\* (mutant) send without the readyState gate
Send_Ungated(w, socket, type, data, writeThrows) ==
  [w EXCEPT !.writes = @ + 1, !.ret = TRUE,
            !.out = Append(@, JsonStringify(Envelope(type, data)).json),
            !.outTo = Append(@, socket)]

\* (mutant) send without its try/catch: a failing JSON.stringify or
\* socket.send throws to the caller
Send_Uncaught(w, socket, type, data, writeThrows) ==
  IF ~IsOpen(w, socket) THEN [w EXCEPT !.ret = FALSE]
  ELSE LET message == JsonStringify(Envelope(type, data))
       IN IF ~message.ok \/ writeThrows
          THEN [w EXCEPT !.thrown = TRUE]
          ELSE [w EXCEPT !.writes = @ + 1, !.ret = TRUE,
                         !.out = Append(@, message.json),
                         !.outTo = Append(@, socket)]

\* send, as the closure holding `socket` runs it
Send(w, socket, type, data, writeThrows) ==
  IF ~IsOpen(w, socket)
  THEN [w EXCEPT !.ret = FALSE]
  ELSE LET message == JsonStringify(Envelope(type, data))
       IN IF ~message.ok \/ writeThrows
          THEN \* caught on line 295
               [w EXCEPT !.ret = FALSE, !.caught = @ + 1]
          ELSE [w EXCEPT !.writes = @ + 1, !.ret = TRUE,
                         !.out = Append(@, message.json),
                         !.outTo = Append(@, socket)]

\* (mutant) sendLocation that nests the payload instead of merging it
SendLocation_Nested(w, socket, latitude, longitude) ==
  [Send(w, socket, "location",
        [data |-> JsObject("{latitude,longitude}")], FALSE)
   EXCEPT !.args = <<latitude, longitude>>]

\* sendLocation and notifyPhotoCapture, as closures over the same send;
\* `args` keeps what the consumer passed
SendLocation(w, socket, latitude, longitude) ==
  [Send(w, socket, "location",
        [latitude |-> latitude, longitude |-> longitude], FALSE)
   EXCEPT !.args = <<latitude, longitude>>]

NotifyPhotoCapture(w, socket, photoId, metadata) ==
  [Send(w, socket, "photo_capture",
        [photoId |-> photoId, metadata |-> metadata], FALSE)
   EXCEPT !.args = <<photoId, metadata>>]

\* stopPingInterval, as the closure that captured pingInterval = p runs it
StopPingInterval(w, p) ==
  IF p # 0 THEN SetState(ClearInterval(w, p), "pingInterval", 0) ELSE w

\* startPingInterval of scope X, called by the onopen of socket `owner`
StartPingInterval(w, X, owner) ==
  LET w1 == StopPingInterval(w, X.spPing)
      id == FreeSlot({i \in DOMAIN w1.pings : w1.pings[i].state = "free"})
  IN IF id = 0 THEN [w1 EXCEPT !.ok = FALSE]
     ELSE SetState(
            [w1 EXCEPT !.pings[id] =
               [state |-> "active", socket |-> X.socket,
                stop |-> X.spPing, owner |-> owner, ownerDisc |-> FALSE]],
            "pingInterval", id)

\* cleanupConnection of scope X
CleanupConnection(w, X) ==
  LET w1 == StopPingInterval(w, X.pingInterval)
  IN IF X.reconnectTimer # 0
     THEN SetState(ClearTimeout(w1, X.reconnectTimer), "reconnectTimer", 0)
     ELSE w1

\* (mutant) scheduleReconnect that counts the attempt when it schedules
ScheduleReconnect_CountsAtSchedule(w, X, owner) ==
  LET w1 == IF X.reconnectTimer # 0 THEN ClearTimeout(w, X.reconnectTimer)
            ELSE w
      id == FreeSlot({i \in DOMAIN w1.timers : w1.timers[i].state = "free"})
  IN IF X.reconnectAttempts >= MAX_RECONNECT_ATTEMPTS THEN w1
     ELSE IF id = 0 THEN [w1 EXCEPT !.ok = FALSE]
     ELSE SetStates(
            [w1 EXCEPT
               !.timers[id] =
                 [state |-> "pending",
                  nextAttempt |-> X.reconnectAttempts + 1,
                  exponent |-> X.reconnectAttempts,
                  delay |-> Delay(X.reconnectAttempts, w.random),
                  conn |-> ConnectOfScheduler(X),
                  ownerDisc |-> w1.socks[owner].disc],
               !.exponent = X.reconnectAttempts,
               !.delay = Delay(X.reconnectAttempts, w.random),
               !.sched = @ + 1],
            << <<"reconnectAttempts", X.reconnectAttempts + 1>>,
               <<"reconnectTimer", id>> >>)

\* scheduleReconnect of scope X, called by the onclose of socket `owner`
ScheduleReconnect(w, X, owner) ==
  LET w1 == IF X.reconnectTimer # 0 THEN ClearTimeout(w, X.reconnectTimer)
            ELSE w
      id == FreeSlot({i \in DOMAIN w1.timers : w1.timers[i].state = "free"})
  IN IF X.reconnectAttempts >= MAX_RECONNECT_ATTEMPTS THEN w1
     ELSE IF id = 0 THEN [w1 EXCEPT !.ok = FALSE]
     ELSE SetState(
            [w1 EXCEPT
               !.timers[id] =
                 [state |-> "pending",
                  nextAttempt |-> X.reconnectAttempts + 1,
                  exponent |-> X.reconnectAttempts,
                  delay |-> Delay(X.reconnectAttempts, w.random),
                  conn |-> ConnectOfScheduler(X),
                  ownerDisc |-> w1.socks[owner].disc],
               !.exponent = X.reconnectAttempts,
               !.delay = Delay(X.reconnectAttempts, w.random),
               !.sched = @ + 1],
            "reconnectTimer", id)

\* resolve() / reject() of the promise returned by the connect() call that
\* created socket id: only the first settlement counts
SettlePromise(w, id, outcome) ==
  IF w.socks[id].promise = "pending"
  THEN [w EXCEPT !.socks[id].promise = outcome, !.settled = outcome]
  ELSE w

\* connect of scope X.  The call is observed against the cells as they are
\* when it is made: `busy` when the Manager is Connected or Connecting,
\* `off` when it is Disconnected and the network is unavailable.
Connect(w0, X) ==
  LET busy == w0.st.isConnected \/ w0.st.isConnecting
      off == ~busy /\ ~w0.st.isNetworkAvailable
      w == [w0 EXCEPT !.calls = @ + 1,
                      !.offCalls = IF off THEN @ + 1 ELSE @]
  IN IF IsOpen(w, X.socket) THEN w
     ELSE IF X.isConnecting THEN w
     ELSE IF ~X.isNetworkAvailable
     THEN [w EXCEPT !.rejected = TRUE,
                    !.offRejects = IF off THEN @ + 1 ELSE @]
     ELSE
       LET w1 == SetStates(w, << <<"isConnecting", TRUE>>,
                                 <<"connectionError", FALSE>> >>)
           id == FreeSlot({i \in DOMAIN w1.socks :
                             w1.socks[i].readyState = "FREE"})
       IN IF id = 0 THEN [w1 EXCEPT !.ok = FALSE]
          ELSE [w1 EXCEPT
                  !.socks[id] = [readyState |-> "CONNECTING", scope |-> X,
                                 disc |-> FALSE, promise |-> "pending"],
                  !.opens = @ + 1,
                  !.busyOpens = IF busy THEN @ + 1 ELSE @,
                  !.offOpens = IF off THEN @ + 1 ELSE @]

\* (mutant) onopen that replays a frame kept from an earlier failed send
OnOpen_Replays(w, id) ==
  LET X == w.socks[id].scope
      w1 == SetStates(w, << <<"socket", id>>, <<"isConnected", TRUE>>,
                            <<"isConnecting", FALSE>>,
                            <<"reconnectAttempts", 0>> >>)
      w2 == SettlePromise(StartPingInterval(w1, X, id), id, "resolved")
  IN [w2 EXCEPT !.writes = @ + 1,
                !.out = Append(@, JsonStringify(
                                    Envelope("status", EmptyData)).json),
                !.outTo = Append(@, id)]

\* newSocket.onopen of socket id
OnOpen(w, id) ==
  LET X == w.socks[id].scope
      w1 == SetStates(w, << <<"socket", id>>, <<"isConnected", TRUE>>,
                            <<"isConnecting", FALSE>>,
                            <<"reconnectAttempts", 0>> >>)
  IN SettlePromise(StartPingInterval(w1, X, id), id, "resolved")

\* newSocket.onclose of socket id
OnClose(w, id, code) ==
  LET X == w.socks[id].scope
      w1 == SetStates(w, << <<"isConnected", FALSE>>,
                            <<"isConnecting", FALSE>>, <<"socket", 0>> >>)
      w2 == CleanupConnection(w1, X)
      w3 == IF code # NORMAL_CLOSURE /\ X.appState = "active"
               /\ X.isNetworkAvailable
            THEN ScheduleReconnect(w2, X, id)
            ELSE w2
  IN [w3 EXCEPT !.probing =
        \E p \in DOMAIN w3.pings :
          w3.pings[p].state = "active" /\ w3.pings[p].owner = id]

\* (mutant) onerror that only logs the error
OnError_LogOnly(w, id) == w

\* newSocket.onerror of socket id
OnError(w, id) ==
  SettlePromise(
    SetStates(w, << <<"connectionError", TRUE>>,
                    <<"isConnecting", FALSE>> >>),
    id, "rejected")

\* new Set(prevListeners).add(callback), in insertion order
SetAdd(set, cb) ==
  IF \E i \in DOMAIN set : set[i] = cb THEN set ELSE Append(set, cb)

\* new Set(prevListeners).delete(callback)
SetDelete(set, cb) == SelectSeq(set, LAMBDA x : x # cb)

\* addListener / removeListener: the updater runs on the latest value of the
\* cell (the result is a new Set in either case)
AddListenerCb(w, cb) == SetState(w, "listeners", SetAdd(w.st.listeners, cb))
RemoveListenerCb(w, cb) ==
  SetState(w, "listeners", SetDelete(w.st.listeners, cb))

\* what a listener callback does to the registry while it runs: nothing, or
\* one addListener / removeListener call
NoEdit == <<"none", 0>>
Edits == {NoEdit} \cup {<<k, cb>> : k \in {"add", "remove"}, cb \in Callbacks}

\* the callback cb runs: it is logged, it makes its registry call, and if it
\* throws the handler catches it
Invoke(w, cb, throwers) ==
  LET e == w.edits[cb]
      w1 == [w EXCEPT !.notified = Append(@, cb),
                      !.caught = IF cb \in throwers THEN @ + 1 ELSE @,
                      !.edited = IF e = NoEdit THEN @ ELSE @ + 1]
  IN IF e[1] = "add" THEN AddListenerCb(w1, e[2])
     ELSE IF e[1] = "remove" THEN RemoveListenerCb(w1, e[2])
     ELSE w1

\* listeners.forEach(listener => { try { listener(message) } catch ... }):
\* the callbacks of `ls` in insertion order; one that throws is caught and
\* logged, and the iteration goes on.  `ls` is the Set object the handler
\* captured: addListener and removeListener build a new Set and leave it
\* as it is
RECURSIVE NotifyListeners(_, _, _)
NotifyListeners(w, ls, throwers) ==
  IF Len(ls) = 0 THEN w
  ELSE NotifyListeners(Invoke(w, Head(ls), throwers), Tail(ls), throwers)

\* (mutant) onmessage that keeps the first message as lastMessage
OnMessage_KeepsFirst(w, id, text, throwers) ==
  LET p == JsonParse(text)
  IN IF ~p.ok THEN [w EXCEPT !.caught = @ + 1]
     ELSE IF p.value.kind = "null"
     THEN [w EXCEPT !.parsed = TRUE, !.caught = @ + 1]
     ELSE NotifyListeners(
            IF w.st.lastMessage = NullValue
            THEN SetState([w EXCEPT !.parsed = TRUE], "lastMessage", p.value)
            ELSE [w EXCEPT !.parsed = TRUE],
            w.socks[id].scope.listeners, throwers)

\* (mutant) onmessage that uses the result of JSON.parse without a catch
\* around it
OnMessage_Unchecked(w, id, text, throwers) ==
  NotifyListeners(
    SetState([w EXCEPT !.parsed = TRUE], "lastMessage",
             JsonParse(text).value),
    w.socks[id].scope.listeners, throwers)

\* newSocket.onmessage of socket id, for a text frame; `throwers` are the
\* callbacks that throw when they are invoked with this message
OnMessage(w, id, text, throwers) ==
  LET X == w.socks[id].scope
      p == JsonParse(text)
  IN IF ~p.ok THEN [w EXCEPT !.caught = @ + 1]
     ELSE IF p.value.kind = "null"
     THEN \* message.type of null: a TypeError, caught by the same handler
          [w EXCEPT !.parsed = TRUE, !.caught = @ + 1]
     ELSE NotifyListeners(
            SetState([w EXCEPT !.parsed = TRUE], "lastMessage", p.value),
            X.listeners, throwers)

\* disconnect of scope X
Disconnect(w, X) ==
  LET w1 == CleanupConnection(w, X)
      w2 == IF IsOpen(w1, X.socket)
            THEN [w1 EXCEPT
                    !.socks[X.socket].readyState = "CLOSING",
                    !.socks[X.socket].disc = TRUE,
                    !.pings = [p \in DOMAIN @ |->
                                 IF @[p].owner = X.socket
                                 THEN [@[p] EXCEPT !.ownerDisc = TRUE]
                                 ELSE @[p]]]
            ELSE w1
  IN SetStates(w2, << <<"socket", 0>>, <<"isConnected", FALSE>> >>)

\* the cleanup returned by the mount effect, whose dependency list is empty:
\* it runs in the scope X of the first render
Unmount(w, X) ==
  LET w1 == CleanupConnection(w, X)
  IN IF X.socket > 0
     THEN [w1 EXCEPT !.socks[X.socket].readyState =
                       IF @ \in {"CONNECTING", "OPEN"} THEN "CLOSING" ELSE @]
     ELSE w1

(* ---------------- tasks ---------------- *)
StateName(s) ==
  IF s.isConnected THEN "Connected"
  ELSE IF s.isConnecting THEN "Connecting" ELSE "Disconnected"

\* the world a task starts in
World ==
  [st |-> st, rst |-> st, spPing |-> spPing, sr |-> sr, appEff |-> appEff,
   netEff |-> netEff, socks |-> socks, timers |-> timers, pings |-> pings,
   opens |-> 0, writes |-> 0, sched |-> 0, calls |-> 0, ret |-> FALSE,
   rejected |-> FALSE, busyOpens |-> 0, offCalls |-> 0, offRejects |-> 0,
   offOpens |-> 0, settled |-> "none", probing |-> FALSE, parsed |-> FALSE,
   notified |-> << >>, caught |-> 0, out |-> << >>, args |-> << >>,
   random |-> Rat(0, 1), exponent |-> -1, delay |-> Rat(0, 1),
   thrown |-> FALSE, outTo |-> << >>,
   edits |-> [cb \in Callbacks |-> NoEdit], edited |-> 0, ok |-> TRUE]

\* handles of objects that are gone, as the closures holding them see them
LiveSocks(w) == {i \in DOMAIN w.socks :
                   w.socks[i].readyState \in {"CONNECTING", "OPEN", "CLOSING"}}
LiveTimers(w) == {i \in DOMAIN w.timers : w.timers[i].state = "pending"}
LivePings(w) == {i \in DOMAIN w.pings : w.pings[i].state = "active"}

Gone(x, live) == IF x > 0 /\ x \notin live THEN -1 ELSE x

SettleBase(b, w) ==
  [b EXCEPT !.socket = Gone(@, LiveSocks(w)),
            !.pingInterval = Gone(@, LivePings(w)),
            !.spPing = Gone(@, LivePings(w))]

SettleScope(X, w) ==
  [X EXCEPT !.socket = Gone(@, LiveSocks(w)),
            !.pingInterval = Gone(@, LivePings(w)),
            !.spPing = Gone(@, LivePings(w)),
            !.reconnectTimer = Gone(@, LiveTimers(w)),
            !.sr = SettleBase(@, w)]

SettleState(s, w) ==
  [s EXCEPT !.socket = Gone(@, LiveSocks(w)),
            !.pingInterval = Gone(@, LivePings(w)),
            !.reconnectTimer = Gone(@, LiveTimers(w))]

SettleSocks(w) ==
  [i \in DOMAIN w.socks |->
     IF i \in LiveSocks(w)
     THEN [w.socks[i] EXCEPT !.scope = SettleScope(@, w)]
     ELSE FreeSock]

SettleTimers(w) ==
  [i \in DOMAIN w.timers |->
     IF i \in LiveTimers(w)
     THEN [w.timers[i] EXCEPT !.conn = SettleScope(@, w)]
     ELSE FreeTimer]

SettlePings(w) ==
  [i \in DOMAIN w.pings |->
     IF i \in LivePings(w)
     THEN [w.pings[i] EXCEPT !.socket = Gone(@, LiveSocks(w)),
                             !.stop = Gone(@, LivePings(w)),
                             !.owner = Gone(@, LiveSocks(w))]
     ELSE FreePing]

\* end of a task: the pending updates are rendered and the effects re-run
Commit(w0, op, h) ==
  LET w == Rerender(w0)
  IN /\ w.ok
     /\ st' = SettleState(w.st, w)
     /\ spPing' = Gone(w.spPing, LivePings(w))
     /\ sr' = SettleBase(w.sr, w)
     /\ appEff' = SettleScope(w.appEff, w)
     /\ netEff' = SettleScope(w.netEff, w)
     /\ socks' = SettleSocks(w)
     /\ timers' = SettleTimers(w)
     /\ pings' = SettlePings(w)
     /\ ev' = [op |-> op, pre |-> StateName(st),
               preNet |-> st.isNetworkAvailable,
               opens |-> w.opens, writes |-> w.writes, sched |-> w.sched,
               calls |-> w.calls, ret |-> w.ret, rejected |-> w.rejected,
               busyOpens |-> w.busyOpens, offCalls |-> w.offCalls,
               offRejects |-> w.offRejects, offOpens |-> w.offOpens,
               settled |-> w.settled,
               probing |-> w.probing, parsed |-> w.parsed,
               notified |-> w.notified, caught |-> w.caught,
               out |-> w.out, args |-> w.args, random |-> w.random,
               exponent |-> w.exponent, delay |-> w.delay,
               thrown |-> w.thrown, outTo |-> w.outTo,
               edited |-> w.edited]
     /\ hist' = [h EXCEPT !.autoSched =
                   IF op = "open" THEN 0
                   ELSE IF @ + w.sched > MAX_RECONNECT_ATTEMPTS
                        THEN MAX_RECONNECT_ATTEMPTS + 1
                        ELSE @ + w.sched,
                           !.rescue = IF @ \in LiveSocks(w) THEN @ ELSE 0]
     /\ UNCHANGED batched

\* some closure called connect(): forget a preceding disconnect()
Invoked(h) == [h EXCEPT !.disc = FALSE, !.discConn = FALSE]

\* attempts has reached MAX_RECONNECT_ATTEMPTS and no reconnect timer is
\* pending: scheduleReconnect has given up (line 135-138)
Exhausted ==
  /\ st.reconnectAttempts >= MAX_RECONNECT_ATTEMPTS
  /\ \A t \in DOMAIN timers : timers[t].state # "pending"

\* the Transports that the task leading to w has created
Opened(w) ==
  {i \in DOMAIN w.socks : /\ w.socks[i].readyState = "CONNECTING"
                          /\ socks[i].readyState # "CONNECTING"}

\* remember the Transport that a trigger's connect() has created while the
\* Manager was exhausted
Rescued(h, w) ==
  IF Exhausted /\ Opened(w) # {}
  THEN [h EXCEPT !.rescue = CHOOSE i \in Opened(w) : TRUE]
  ELSE h

InitState(a) ==
  [socket |-> 0, isConnected |-> FALSE, isConnecting |-> FALSE,
   connectionError |-> FALSE, reconnectTimer |-> 0, pingInterval |-> 0,
   reconnectAttempts |-> 0, isNetworkAvailable |-> TRUE, appState |-> a,
   lastMessage |-> NullValue, listeners |-> << >>]

Init ==
  /\ \E a \in AppStates : st = InitState(a)
  /\ batched \in BOOLEAN
  /\ spPing = 0
  /\ sr = Base(st, 0)
  /\ appEff = MkScope(Base(st, 0), 0, 0, Base(st, 0))
  /\ netEff = MkScope(Base(st, 0), 0, 0, Base(st, 0))
  /\ socks = [i \in 1..MaxSockets |-> FreeSock]
  /\ timers = [i \in 1..MaxTimers |-> FreeTimer]
  /\ pings = [i \in 1..MaxPings |-> FreePing]
  /\ mounted = FALSE
  /\ ev = [op |-> "init", pre |-> "Disconnected", preNet |-> TRUE,
           opens |-> 0, writes |-> 0, sched |-> 0, calls |-> 0,
           ret |-> FALSE, rejected |-> FALSE, busyOpens |-> 0,
           offCalls |-> 0, offRejects |-> 0, offOpens |-> 0,
           settled |-> "none",
           probing |-> FALSE, parsed |-> FALSE, notified |-> << >>,
           caught |-> 0, out |-> << >>, args |-> << >>,
           random |-> Rat(0, 1), exponent |-> -1, delay |-> Rat(0, 1),
           thrown |-> FALSE, outTo |-> << >>, edited |-> 0]
  /\ hist = [disc |-> FALSE, discConn |-> FALSE, autoSched |-> 0, rescue |-> 0,
             torn |-> FALSE,
             wire |-> << >>, recv |-> [cb \in Callbacks |-> << >>]]
  /\ steps = 0

\* the mount effect (auto-connect when in foreground)
Mount ==
  /\ ~mounted
  /\ mounted' = TRUE
  /\ IF st.appState = "active" /\ st.isNetworkAvailable
     THEN Commit(Connect(World, CurScope(World)), "mount", Invoked(hist))
     ELSE Commit(World, "mount", hist)

\* the scope of the first render: no socket, no timer, no ping interval (the
\* cleanup of the mount effect reads nothing else of it)
MountScope ==
  MkScope(Base(InitState("active"), 0), 0, 0, Base(InitState("active"), 0))

\* the provider is unmounted
CallUnmount ==
  /\ mounted
  /\ ~hist.torn
  /\ UNCHANGED mounted
  /\ Commit(Unmount(World, MountScope), "unmount",
            [hist EXCEPT !.torn = TRUE])

\* a consumer calls connect() n times in one task (same closure)
RECURSIVE ConnectTimes(_, _, _)
ConnectTimes(w, X, n) ==
  IF n = 0 THEN w ELSE ConnectTimes(Connect(w, X), X, n - 1)

CallConnect(n) ==
  /\ mounted
  /\ UNCHANGED mounted
  /\ Commit(ConnectTimes(World, CurScope(World), n), "connect",
            Invoked(hist))

\* a consumer calls disconnect()
CallDisconnect ==
  /\ mounted
  /\ UNCHANGED mounted
  /\ Commit(Disconnect(World, CurScope(World)), "disconnect",
            [hist EXCEPT !.disc = TRUE, !.discConn = st.isConnected])

\* a consumer calls send(type, data); the Transport write may throw
CallSendWith(type, data, writeThrows) ==
  /\ mounted
  /\ UNCHANGED mounted
  /\ Commit(Send(World, CurScope(World).socket, type, data, writeThrows),
            "send", hist)

\* payloads of send: the default, an ordinary field, and payloads that have
\* a key of the envelope
Payloads ==
  {EmptyData,
   [k \in {"note"} |-> JsString("hello")],
   [k \in {"type"} |-> JsString("spoofed")],
   [k \in {"timestamp"} |-> JsString("1970-01-01T00:00:00.000Z")],
   [k \in {"type", "timestamp"} |->
      IF k = "type" THEN JsString("spoofed")
      ELSE JsString("1970-01-01T00:00:00.000Z")]}

MessageTypes == {"status", "location"}

\* a consumer calls send(type, data)
CallSendPayload(type, data) ==
  /\ mounted
  /\ UNCHANGED mounted
  /\ Commit(Send([World EXCEPT !.args = <<JsString(type), data>>],
                 CurScope(World).socket, type, data, FALSE),
            "send", hist)

\* a consumer calls send(type) with the default payload
CallSend == CallSendWith("status", EmptyData, FALSE)

\* a consumer calls sendLocation(latitude, longitude)
CallSendLocation(latitude, longitude) ==
  /\ mounted
  /\ UNCHANGED mounted
  /\ Commit(SendLocation(World, CurScope(World).socket, latitude,
                         longitude),
            "sendLocation", hist)

\* a consumer calls notifyPhotoCapture(photoId, metadata)
CallNotifyPhotoCapture(photoId, metadata) ==
  /\ mounted
  /\ UNCHANGED mounted
  /\ Commit(NotifyPhotoCapture(World, CurScope(World).socket, photoId,
                               metadata),
            "notifyPhotoCapture", hist)

\* handleAppStateChange(nextAppState)
AppStateChange(nextAppState) ==
  /\ mounted
  /\ UNCHANGED mounted
  /\ nextAppState # st.appState
  /\ LET E == appEff
         trig == /\ E.appState \in {"inactive", "background"}
                 /\ nextAppState = "active"
                 /\ ~st.isConnected /\ ~E.isConnecting
                 /\ E.isNetworkAvailable
         w1 == IF trig THEN Connect(World, E) ELSE World
     IN Commit(SetState(w1, "appState", nextAppState), "appstate",
               Rescued(IF trig THEN Invoked(hist) ELSE hist, w1))

\* the NetInfo listener
NetInfoEvent(nowAvailable) ==
  /\ mounted
  /\ UNCHANGED mounted
  /\ LET E == netEff
         trig == /\ nowAvailable /\ ~E.isNetworkAvailable
                 /\ ~st.isConnected /\ ~E.isConnecting
         w1 == IF trig THEN Connect(World, E) ELSE World
     IN Commit(SetState(w1, "isNetworkAvailable", nowAvailable), "netinfo",
               Rescued(IF trig THEN Invoked(hist) ELSE hist, w1))

\* the Transport reports open
TransportOpen(id) ==
  /\ id \in DOMAIN socks
  /\ socks[id].readyState = "CONNECTING"
  /\ UNCHANGED mounted
  /\ Commit(OnOpen([World EXCEPT !.socks[id].readyState = "OPEN"], id),
            "open", hist)

\* the Transport fails: an error event followed by the close event
TransportFailWith(id, random) ==
  /\ id \in DOMAIN socks
  /\ socks[id].readyState \in {"CONNECTING", "OPEN"}
  /\ UNCHANGED mounted
  /\ LET w0 == [World EXCEPT !.socks[id].readyState = "CLOSED",
                             !.random = random]
     IN Commit(OnClose(OnError(w0, id), id, ABNORMAL_CLOSURE),
               IF socks[id].readyState = "CONNECTING" THEN "openfail"
               ELSE "fail",
               hist)

\* the Transport reports close
TransportCloseWith(id, code, random) ==
  /\ id \in DOMAIN socks
  /\ \/ socks[id].readyState = "OPEN"
     \/ socks[id].readyState = "CLOSING" /\ code = NORMAL_CLOSURE
  /\ UNCHANGED mounted
  /\ LET w0 == [World EXCEPT !.socks[id].readyState = "CLOSED",
                             !.random = random]
     IN Commit(OnClose(w0, id, code),
               IF code = NORMAL_CLOSURE THEN "close" ELSE "abclose", hist)

\* the Transport reports close before it has opened, with no error event
TransportCloseUnopened(id, code) ==
  /\ id \in DOMAIN socks
  /\ socks[id].readyState = "CONNECTING"
  /\ UNCHANGED mounted
  /\ LET w0 == [World EXCEPT !.socks[id].readyState = "CLOSED"]
     IN Commit(OnClose(w0, id, code), "unopenedclose", hist)

\* the same events where Math.random() draws its least value
TransportFail(id) == TransportFailWith(id, Rat(0, 1))
TransportClose(id, code) == TransportCloseWith(id, code, Rat(0, 1))

\* a reconnect timer fires
TimerFire(t) ==
  /\ t \in DOMAIN timers
  /\ timers[t].state = "pending"
  /\ UNCHANGED mounted
  /\ LET c == timers[t]
         w0 == ClearTimeout(World, t)
         w1 == SetState(w0, "reconnectAttempts", c.nextAttempt)
     IN Commit(Connect(w1, c.conn), "timer", [hist EXCEPT !.disc = FALSE])

\* the ping interval ticks
PingTick(p) ==
  /\ p \in DOMAIN pings
  /\ pings[p].state = "active"
  /\ UNCHANGED mounted
  /\ LET c == pings[p]
     IN Commit(IF IsOpen(World, c.socket)
               THEN Send(World, c.socket, "ping", EmptyData, FALSE)
               ELSE StopPingInterval(World, c.stop),
               "ping", hist)

\* a consumer calls addListener(cb) / removeListener(cb)
AddListener(cb) ==
  /\ mounted
  /\ UNCHANGED mounted
  /\ Commit(AddListenerCb(World, cb), "addListener", hist)

RemoveListener(cb) ==
  /\ mounted
  /\ UNCHANGED mounted
  /\ Commit(RemoveListenerCb(World, cb), "removeListener", hist)

\* the Transport delivers a text frame; which callbacks throw matters for
\* those the handler can invoke
TransportMessageWith(id, text, throwers, edits) ==
  /\ id \in DOMAIN socks
  /\ socks[id].readyState \in {"OPEN", "CLOSING"}
  /\ \A cb \in throwers :
       \E i \in DOMAIN socks[id].scope.listeners :
         socks[id].scope.listeners[i] = cb
  /\ \A cb \in Callbacks :
       edits[cb] # NoEdit
         => \E i \in DOMAIN socks[id].scope.listeners :
              socks[id].scope.listeners[i] = cb
  /\ Len(hist.wire) < MaxFrames
  /\ UNCHANGED mounted
  /\ LET w == OnMessage([World EXCEPT !.edits = edits], id, text, throwers)
         n == Len(hist.wire) + 1
     IN Commit(w, "message",
               [hist EXCEPT
                  !.wire = Append(@, text),
                  !.recv = [cb \in Callbacks |->
                              @[cb] \o [i \in 1..Cardinality(
                                          {j \in DOMAIN w.notified :
                                             w.notified[j] = cb}) |-> n]]])

\* a frame whose callbacks leave the registry alone
TransportMessage(id, text, throwers) ==
  TransportMessageWith(id, text, throwers, [cb \in Callbacks |-> NoEdit])

\* lines 143-144 evaluated on their own, before the provider mounts, for a
\* reconnectAttempts of any size and any Math.random()
ComputeDelay(reconnectAttempts, random) ==
  /\ ~mounted
  /\ ev' = [ev EXCEPT !.op = "delay", !.exponent = reconnectAttempts,
                      !.random = random,
                      !.delay = Delay(reconnectAttempts, random)]
  /\ UNCHANGED <<st, spPing, sr, appEff, netEff, socks, timers, pings,
                 mounted, batched, hist, steps>>

Tick == steps < MaxSteps /\ steps' = steps + 1

\* every task the provider can run
Next ==
  \/ Tick /\ Mount
  \/ Tick /\ \E n \in 1..MaxRapidCalls : CallConnect(n)
  \/ Tick /\ CallDisconnect
  \/ Tick /\ CallSend
  \/ Tick /\ \E a \in AppStates : AppStateChange(a)
  \/ Tick /\ \E b \in BOOLEAN : NetInfoEvent(b)
  \/ Tick /\ \E id \in 1..MaxSockets : TransportOpen(id)
  \/ Tick /\ \E id \in 1..MaxSockets : TransportFail(id)
  \/ Tick /\ \E id \in 1..MaxSockets, code \in CloseCodes :
               TransportClose(id, code)
  \/ Tick /\ \E t \in 1..MaxTimers : TimerFire(t)
  \/ Tick /\ \E p \in 1..MaxPings : PingTick(p)

Spec == Init /\ [][Next]_vars

\* the provider left to itself with the app and the network as they were
\* at start: Transport events and timers only, runs of any length
NextAuto ==
  \/ UNCHANGED steps /\ Mount
  \/ UNCHANGED steps /\ \E id \in 1..MaxSockets : TransportOpen(id)
  \/ UNCHANGED steps /\ \E id \in 1..MaxSockets : TransportFail(id)
  \/ UNCHANGED steps /\ \E id \in 1..MaxSockets, code \in CloseCodes :
                          TransportClose(id, code)
  \/ UNCHANGED steps /\ \E t \in 1..MaxTimers : TimerFire(t)
  \/ UNCHANGED steps /\ \E p \in 1..MaxPings : PingTick(p)

SpecAuto == Init /\ [][NextAuto]_vars

\* the provider with consumers that register callbacks and a server that
\* sends frames
NextMsg ==
  \/ Tick /\ Mount
  \/ Tick /\ CallConnect(1)
  \/ Tick /\ CallDisconnect
  \/ Tick /\ \E cb \in Callbacks : AddListener(cb)
  \/ Tick /\ \E cb \in Callbacks : RemoveListener(cb)
  \/ Tick /\ \E id \in 1..MaxSockets : TransportOpen(id)
  \/ Tick /\ \E id \in 1..MaxSockets : TransportFail(id)
  \/ Tick /\ \E id \in 1..MaxSockets, code \in CloseCodes :
               TransportClose(id, code)
  \/ Tick /\ \E t \in 1..MaxTimers : TimerFire(t)
  \/ Tick /\ \E id \in 1..MaxSockets, text \in Frames,
                  throwers \in SUBSET Callbacks :
               TransportMessage(id, text, throwers)

SpecMsg == Init /\ [][NextMsg]_vars

\* the provider with consumers that send
NextSend ==
  \/ Tick /\ Mount
  \/ Tick /\ CallConnect(1)
  \/ Tick /\ CallDisconnect
  \/ Tick /\ \E id \in 1..MaxSockets : TransportOpen(id)
  \/ Tick /\ \E id \in 1..MaxSockets : TransportFail(id)
  \/ Tick /\ \E id \in 1..MaxSockets, code \in CloseCodes :
               TransportClose(id, code)
  \/ Tick /\ \E t \in 1..MaxTimers : TimerFire(t)
  \/ Tick /\ \E writeThrows \in BOOLEAN :
               CallSendWith("status", EmptyData, writeThrows)
  \/ Tick /\ \E latitude \in Coordinates, longitude \in Coordinates :
               CallSendLocation(latitude, longitude)
  \/ Tick /\ \E photoId \in PhotoIds, metadata \in Metadata :
               CallNotifyPhotoCapture(photoId, metadata)

SpecSend == Init /\ [][NextSend]_vars

\* the provider with a consumer that calls connect() and a Transport that
\* fails or closes, each scheduling drawing its own Math.random(); and the
\* delay expression evaluated on its own
NextBackoff ==
  \/ \E reconnectAttempts \in 0..MaxExponent, random \in Randoms :
       ComputeDelay(reconnectAttempts, random)
  \/ Tick /\ Mount
  \/ Tick /\ CallConnect(1)
  \/ Tick /\ \E id \in 1..MaxSockets : TransportOpen(id)
  \/ Tick /\ \E id \in 1..MaxSockets, random \in Randoms :
               TransportFailWith(id, random)
  \/ Tick /\ \E id \in 1..MaxSockets, code \in CloseCodes,
                  random \in Randoms :
               TransportCloseWith(id, code, random)
  \/ Tick /\ \E t \in 1..MaxTimers : TimerFire(t)

SpecBackoff == Init /\ [][NextBackoff]_vars

\* the provider whose server is unreachable and whose app stays as it was
\* until the reconnect attempts are exhausted: every Transport fails before
\* the next reconnect timer is due, and a consumer calls connect() by hand
\* while a reconnect timer is pending and no Transport is alive.  Once the
\* Manager is exhausted the app changes its state, and the server accepts
\* the Transport that such a change has opened.  Runs of any length.
Idle == LiveSocks(World) = {}

NextExhaust ==
  \/ UNCHANGED steps /\ Mount
  \/ UNCHANGED steps /\ Idle /\ LiveTimers(World) # {} /\ CallConnect(1)
  \/ UNCHANGED steps /\ \E id \in 1..MaxSockets : TransportFail(id)
  \/ UNCHANGED steps /\ Idle /\ \E t \in 1..MaxTimers : TimerFire(t)
  \/ UNCHANGED steps /\ Exhausted /\ \E a \in AppStates : AppStateChange(a)
  \/ UNCHANGED steps /\ hist.rescue > 0 /\ TransportOpen(hist.rescue)

SpecExhaust == Init /\ [][NextExhaust]_vars

\* the provider with consumers whose callbacks call addListener and
\* removeListener while a frame is being delivered to them
NextEdit ==
  \/ Tick /\ Mount
  \/ Tick /\ CallConnect(1)
  \/ Tick /\ \E cb \in Callbacks : AddListener(cb)
  \/ Tick /\ \E cb \in Callbacks : RemoveListener(cb)
  \/ Tick /\ \E id \in 1..MaxSockets : TransportOpen(id)
  \/ Tick /\ \E id \in 1..MaxSockets, text \in Frames,
                  edits \in [Callbacks -> Edits] :
               TransportMessageWith(id, text, {}, edits)

SpecEdit == Init /\ [][NextEdit]_vars

\* the provider until it is unmounted; a run ends with the unmount
NextTeardown ==
  \/ Tick /\ ~hist.torn /\ Mount
  \/ Tick /\ ~hist.torn /\ CallConnect(1)
  \/ Tick /\ ~hist.torn /\ \E id \in 1..MaxSockets : TransportOpen(id)
  \/ Tick /\ ~hist.torn /\ \E id \in 1..MaxSockets : TransportFail(id)
  \/ Tick /\ ~hist.torn /\ \E id \in 1..MaxSockets, code \in CloseCodes :
                            TransportClose(id, code)
  \/ Tick /\ ~hist.torn /\ \E t \in 1..MaxTimers : TimerFire(t)
  \/ Tick /\ ~hist.torn /\ \E p \in 1..MaxPings : PingTick(p)
  \/ Tick /\ CallUnmount

SpecTeardown == Init /\ [][NextTeardown]_vars

\* the Manager with Transports that may also close before they open
NextSettle ==
  \/ Tick /\ Mount
  \/ Tick /\ CallConnect(1)
  \/ Tick /\ \E id \in 1..MaxSockets : TransportOpen(id)
  \/ Tick /\ \E id \in 1..MaxSockets : TransportFail(id)
  \/ Tick /\ \E id \in 1..MaxSockets, code \in CloseCodes :
               TransportClose(id, code)
  \/ Tick /\ \E id \in 1..MaxSockets, code \in CloseCodes :
               TransportCloseUnopened(id, code)
  \/ Tick /\ \E t \in 1..MaxTimers : TimerFire(t)

SpecSettle == Init /\ [][NextSettle]_vars

\* the Manager with consumers that send payloads of their own
NextPayload ==
  \/ Tick /\ Mount
  \/ Tick /\ CallConnect(1)
  \/ Tick /\ CallDisconnect
  \/ Tick /\ \E id \in 1..MaxSockets : TransportOpen(id)
  \/ Tick /\ \E id \in 1..MaxSockets : TransportFail(id)
  \/ Tick /\ \E type \in MessageTypes, data \in Payloads :
               CallSendPayload(type, data)

SpecPayload == Init /\ [][NextPayload]_vars

(* ======================= the claims ======================= *)
OpeningOrOpen ==
  {i \in DOMAIN socks : socks[i].readyState \in {"CONNECTING", "OPEN"}}
PendingTimers == {t \in DOMAIN timers : timers[t].state = "pending"}
ActivePings == {p \in DOMAIN pings : pings[p].state = "active"}

\* C1 (as claimed): two connect() calls made in one task while Disconnected,
\* with the network available, perform exactly one Transport open.
C1_IdempotentConnect ==
  (ev.op = "connect" /\ ev.calls = 2 /\ ev.pre = "Disconnected" /\ ev.preNet)
    => ev.opens = 1

\* C2 (as claimed): in every reachable state at most one Transport is
\* opening or open.
C2_SingleTransport == Cardinality(OpeningOrOpen) <= 1

\* C3 (as claimed): once disconnect() has been called and until connect() is
\* invoked again, the Manager is Disconnected.
C3_DisconnectLeavesDisconnected ==
  hist.disc => StateName(st) = "Disconnected"

\* C4 (as claimed): neither disconnect() nor a close with code 1000 schedules
\* a reconnect timer, and after a disconnect() of a Connected Manager, until
\* a consumer or a trigger calls connect() again, isConnected stays false and
\* no reconnect timer opens a Transport.
C4_NoReconnectAfterIntentionalClose ==
  /\ ev.op \in {"disconnect", "close"} => ev.sched = 0
  /\ hist.discConn => /\ ~st.isConnected
                      /\ ~(ev.op = "timer" /\ ev.opens > 0)

\* C5: after disconnect() has returned, the reconnect and ping handles of
\* the Manager are null, and no ping interval started by the connection it
\* closed and no reconnect timer scheduled by that connection's close is
\* left to fire.
C5_DisconnectCancelsTimers ==
  /\ ev.op = "disconnect" => st.reconnectTimer = 0 /\ st.pingInterval = 0
  /\ \A p \in ActivePings : ~pings[p].ownerDisc
  /\ \A t \in PendingTimers : ~timers[t].ownerDisc

C7_MaxAttemptsCeiling == hist.autoSched <= MAX_RECONNECT_ATTEMPTS

\* C8 (as claimed): attempts is 0 for as long as the Manager is Connected.
C8_AttemptsZeroWhileConnected == st.isConnected => st.reconnectAttempts = 0

\* C9 (as claimed): at most one reconnect timer is pending.
C9_SingleReconnectTimer == Cardinality(PendingTimers) <= 1

Members(set) == {set[i] : i \in DOMAIN set}

\* C11 (as claimed): a successfully parsed inbound frame is delivered to
\* exactly the callbacks that are in the ListenerSet when the frame arrives.
C11_ListenerFanOut ==
  [][(ev'.op = "message" /\ ev'.parsed)
       => Members(ev'.notified) = Members(st.listeners)]_vars

\* the value of the frame the Transport delivered last
LastFrameValue(h) == JsonParse(h.wire[Len(h.wire)]).value

\* C12 (as claimed): when a listener throws while handling an inbound
\* message, every other registered listener is still invoked with it,
\* lastMessage is updated to it and the connection state is unchanged.
C12_ListenerIsolation ==
  [][(ev'.op = "message" /\ ev'.notified # << >> /\ ev'.caught > 0)
       => /\ Members(st.listeners) \subseteq Members(ev'.notified)
          /\ st'.lastMessage = LastFrameValue(hist')
          /\ st'.isConnected = st.isConnected
          /\ st'.isConnecting = st.isConnecting
          /\ st'.socket = st.socket]_vars

\* C13: a text frame that is not valid JSON is caught inside the handler,
\* invokes no listener and leaves isConnected, isConnecting and lastMessage
\* as they were.
C13_MalformedFrameDropped ==
  [][(ev'.op = "message" /\ ~JsonParse(hist'.wire[Len(hist'.wire)]).ok)
       => /\ ev'.notified = << >>
          /\ ev'.caught = 1
          /\ st'.isConnected = st.isConnected
          /\ st'.isConnecting = st.isConnecting
          /\ st'.lastMessage = st.lastMessage]_vars

\* C13 witness: a frame that is not JSON has arrived on an open Transport
\* whose handler has a listener to notify, after a message was stored.
C13_Witness ==
  /\ ev.op = "message" /\ ~ev.parsed /\ ev.caught = 1
  /\ st.isConnected /\ st.lastMessage # NullValue
  /\ \E id \in DOMAIN socks :
       socks[id].readyState = "OPEN" /\ Len(socks[id].scope.listeners) > 0

\* the log of one listener: the frames it was invoked with, by their
\* position in the order of arrival, each once and in that order
InOrderOnce(log) ==
  \A i, j \in DOMAIN log : i < j => log[i] < log[j]

\* the value of the last frame among the first n that JSON.parse accepted
RECURSIVE LastParsed(_, _)
LastParsed(wire, n) ==
  IF n = 0 THEN NullValue
  ELSE IF JsonParse(wire[n]).ok THEN JsonParse(wire[n]).value
  ELSE LastParsed(wire, n - 1)

\* a frame the handler delivers: JSON whose value is not null
Deliverable(text) ==
  JsonParse(text).ok /\ JsonParse(text).value.kind # "null"

RECURSIVE LastDelivered(_, _)
LastDelivered(wire, n) ==
  IF n = 0 THEN NullValue
  ELSE IF Deliverable(wire[n]) THEN JsonParse(wire[n]).value
  ELSE LastDelivered(wire, n - 1)

C15_OfflineConnectRejects ==
  (ev.op # "netinfo" /\ ev.offCalls > 0)
    => /\ ev.offRejects = ev.offCalls
       /\ ev.offOpens = 0
       /\ StateName(st) = "Disconnected"

\* C16 (as claimed): a connect() call made while the Manager is Connected
\* or Connecting opens no Transport, and a consumer's connect() while
\* Connected changes no state cell.
C16_BusyConnectNoEffect ==
  [][/\ ev'.busyOpens = 0
     /\ (ev'.op = "connect" /\ ev'.pre = "Connected") => st' = st]_vars

\* C17: when a Transport fails before it has opened, the promise of the
\* connect() call that created it is rejected, connectionError is recorded
\* and the Manager is Disconnected (isConnecting and isConnected false).
C17_OpenFailure ==
  ev.op = "openfail"
    => /\ ev.settled = "rejected"
       /\ st.connectionError
       /\ ~st.isConnecting /\ ~st.isConnected

\* C17 witness: a Transport of a Connecting Manager has failed before open
\* and its promise was rejected.
C17_Witness ==
  /\ ev.op = "openfail" /\ ev.pre = "Connecting"
  /\ ev.settled = "rejected" /\ st.connectionError

\* the Transport held in the socket cell of a Connected Manager closes in
\* this step
ConnectedTransportCloses ==
  /\ ev'.op \in {"close", "abclose", "fail"}
  /\ st.isConnected /\ st.socket > 0
  /\ socks[st.socket].readyState \in {"OPEN", "CLOSING"}
  /\ socks'[st.socket].readyState = "FREE"

\* C18 (as claimed): when the Transport of a Connected Manager closes with a
\* code other than 1000 while the app is active and the network available,
\* the Manager becomes Disconnected, the ping interval of that Transport is
\* stopped and exactly one reconnect timer is scheduled and pending.
C18_AbnormalCloseReconnects ==
  [][(/\ ConnectedTransportCloses
      /\ ev'.op \in {"abclose", "fail"}
      /\ st.appState = "active" /\ st.isNetworkAvailable)
       => /\ StateName(st') = "Disconnected"
          /\ ~ev'.probing
          /\ ev'.sched = 1
          /\ Cardinality(PendingTimers') = 1]_vars

\* C19 (as claimed): when the Transport of a Connected Manager closes while
\* the app is not active or the network is unavailable, the Manager becomes
\* Disconnected, the ping interval of that Transport is stopped and no
\* reconnect timer is scheduled.
C19_NoReconnectInBackgroundOrOffline ==
  [][(/\ ConnectedTransportCloses
      /\ (st.appState # "active" \/ ~st.isNetworkAvailable))
       => /\ StateName(st') = "Disconnected"
          /\ ~ev'.probing
          /\ ev'.sched = 0]_vars

\* C20 (as claimed): when NetInfo reports the network available after it
\* was unavailable, while the Manager is Disconnected, connect() is invoked,
\* a Transport open is attempted and the Manager enters Connecting.
C20_NetworkRestoreReconnects ==
  (/\ ev.op = "netinfo" /\ ~ev.preNet /\ st.isNetworkAvailable
   /\ ev.pre = "Disconnected")
    => ev.calls = 1 /\ ev.opens = 1 /\ st.isConnecting

\* C21 (as claimed): when the app becomes active while the Manager is
\* Disconnected and the network is available, connect() is invoked and a
\* Transport open is attempted; when the Manager is Connected or Connecting
\* the transition opens nothing.
C21_ForegroundTrigger ==
  (ev.op = "appstate" /\ st.appState = "active")
    => IF ev.pre = "Disconnected" /\ ev.preNet
       THEN ev.calls = 1 /\ ev.opens = 1 /\ st.isConnecting
       ELSE ev.opens = 0

\* C22 (as claimed): a tick of a ping interval that occurs while the Manager
\* is Connected writes one ping frame to the Transport.
C22_ProbeTickSendsPing ==
  (ev.op = "ping" /\ ev.pre = "Connected") => ev.writes = 1

\* C23 (as claimed): at most one ping interval is outstanding, and one is
\* outstanding only while the Manager is Connected.
C23_SingleProbeWhileConnected ==
  /\ Cardinality(ActivePings) <= 1
  /\ ActivePings # {} => st.isConnected

\* C24 (as claimed): isConnected and isConnecting are never both true.
C24_StateExclusive == ~(st.isConnected /\ st.isConnecting)

\* what JSON.parse gives back for a value that JSON.stringify wrote
AsWritten(v) == IF v = JsNumber("NaN") THEN JsNull ELSE v

C26_BackoffGrowth ==
  /\ ev.exponent >= 0 =>
       LET base == BackoffBase(ev.exponent)
       IN /\ ev.exponent = 0 => base = <<3000, 1>>
          /\ ev.exponent = 1 => base = <<4500, 1>>
          /\ ev.exponent = 2 => base = <<6750, 1>>
          /\ ev.exponent = 3 => base = <<10125, 1>>
          /\ RatLeq(base, <<30000, 1>>)
          /\ RatLeq(RatMul(<<8, 10>>, base), ev.delay)
          /\ RatLeq(ev.delay, RatMul(<<12, 10>>, base))
          /\ ev.delay = RatMul(base, RatAdd(<<8, 10>>,
                                            RatMul(ev.random, <<4, 10>>)))
  /\ \A t \in PendingTimers :
       /\ RatLeq(RatMul(<<8, 10>>, BackoffBase(timers[t].exponent)),
                 timers[t].delay)
       /\ RatLeq(timers[t].delay,
                 RatMul(<<12, 10>>, BackoffBase(timers[t].exponent)))

\* a reconnect is scheduled after one counted attempt with a Math.random()
\* other than its least value
C26_Witness ==
  /\ ev.sched > 0
  /\ ev.exponent = 1
  /\ ev.random # <<0, 1>>
  /\ st.reconnectTimer > 0
  /\ timers[st.reconnectTimer].delay = ev.delay

\* ---- C27 ----
\* how many times the handler invoked cb for one frame
TimesNotified(notified, cb) ==
  Cardinality({i \in DOMAIN notified : notified[i] = cb})

\* the registry as a set: adding a member again changes nothing, removing a
\* non-member changes nothing, removing what was just added to a set that
\* did not hold it gives the set back; and the steps of addListener and
\* removeListener are these operations on the ListenerSet
SetAlgebra ==
  /\ \A cb \in Callbacks :
       /\ SetAdd(SetAdd(st.listeners, cb), cb) = SetAdd(st.listeners, cb)
       /\ cb \notin Members(st.listeners)
            => /\ SetDelete(st.listeners, cb) = st.listeners
               /\ SetDelete(SetAdd(st.listeners, cb), cb) = st.listeners
  /\ Cardinality(Members(st.listeners)) = Len(st.listeners)

RegistrySteps ==
  /\ ev'.op = "addListener"
       => \E cb \in Callbacks :
            /\ Members(st'.listeners) = Members(st.listeners) \cup {cb}
            /\ cb \in Members(st.listeners) => st'.listeners = st.listeners
  /\ ev'.op = "removeListener"
       => \E cb \in Callbacks :
            /\ Members(st'.listeners) = Members(st.listeners) \ {cb}
            /\ cb \notin Members(st.listeners)
                 => st'.listeners = st.listeners

\* C27 (as claimed): the listener registry has set semantics (adding a
\* reference twice is adding it once, removing an absent reference changes
\* nothing, removing a reference just added restores the prior set), and a
\* message is delivered once to a callback that is registered, however many
\* times it was added.
C27_ListenerSetSemantics ==
  [][/\ SetAlgebra
     /\ RegistrySteps
     /\ (ev'.op = "message" /\ Deliverable(hist'.wire[Len(hist'.wire)]))
          => \A cb \in Members(st.listeners) :
               TimesNotified(ev'.notified, cb) = 1]_vars

\* ---- C28 ----
SendOps == {"send", "sendLocation", "notifyPhotoCapture"}

\* C28: send never throws to its caller; when the write fails while the
\* Manager is Connected, send returns false, writes nothing, and leaves the
\* connection state (the state cells and the Transports) as it was.
C28_SendNeverThrows ==
  [][ev'.op \in SendOps
       => /\ ~ev'.thrown
          /\ (ev'.pre = "Connected" /\ ev'.caught > 0)
               => /\ ~ev'.ret
                  /\ ev'.writes = 0
                  /\ st' = st
                  /\ socks' = socks
                  /\ pings' = pings
                  /\ timers' = timers]_vars

\* a send made while Connected whose socket.send threw
C28_Witness ==
  /\ ev.op = "send" /\ ev.pre = "Connected"
  /\ ev.caught = 1 /\ ~ev.ret /\ ev.out = << >>
  /\ st.isConnected /\ IsOpen(World, st.socket)

\* ---- C29 ----
\* the tasks in which a Transport reports an error or an abnormal close
FailureOps == {"fail", "openfail", "abclose"}

\* C29 (as claimed): a reconnect timer that fires invokes connect(); when a
\* Transport fails or closes abnormally while attempts < maxAttempts, the
\* app is active and the network is available, another reconnect timer is
\* scheduled; each such cycle counts one more attempt, so that the cycle
\* ends when attempts reaches maxAttempts: no more than maxAttempts timers
\* are scheduled without an open between them.
C29_ReconnectCycle ==
  [][/\ ev'.op = "timer" => ev'.calls = 1
     /\ (/\ ev'.op \in FailureOps
         /\ st.reconnectAttempts < MAX_RECONNECT_ATTEMPTS
         /\ st.appState = "active"
         /\ st.isNetworkAvailable) => ev'.sched = 1
     /\ (ev'.op \in FailureOps /\ ev'.sched > 0)
          => timers'[st'.reconnectTimer].nextAttempt
               = st.reconnectAttempts + 1
     /\ hist'.autoSched <= MAX_RECONNECT_ATTEMPTS]_vars

\* ---- C30 ----
\* C30 (as claimed): when the Manager is exhausted (attempts has reached
\* maxAttempts and no reconnect timer is pending) and a connect() issued by
\* an external trigger (app foregrounded, network restored) succeeds,
\* attempts is reset to 0, and an abnormal close of that Transport, with
\* the app active and the network available, schedules a reconnect timer.
C30_ExhaustionRecoverable ==
  [][/\ (/\ ev'.op = "open"
         /\ hist.rescue > 0
         /\ socks[hist.rescue].readyState = "CONNECTING"
         /\ socks'[hist.rescue].readyState = "OPEN")
          => st'.reconnectAttempts = 0
     /\ (/\ ev'.op \in FailureOps
         /\ hist.rescue > 0
         /\ socks[hist.rescue].readyState = "OPEN"
         /\ hist'.rescue = 0
         /\ st.isConnected /\ st.reconnectAttempts = 0
         /\ st.appState = "active" /\ st.isNetworkAvailable)
          => ev'.sched = 1]_vars

\* ---- C31 ----
\* C31 (as claimed): a tick of a ping interval leaves isConnected,
\* isConnecting, the socket handle, attempts, the reconnect timer and every
\* Transport as they were; and a tick that occurs while the Manager is not
\* Connected stops the interval that ticked, so that it does not tick again.
C31_ProbeTickHarmless ==
  [][/\ ev'.op = "ping"
          => /\ st'.isConnected = st.isConnected
             /\ st'.isConnecting = st.isConnecting
             /\ st'.socket = st.socket
             /\ st'.reconnectAttempts = st.reconnectAttempts
             /\ st'.reconnectTimer = st.reconnectTimer
             /\ socks' = socks
             /\ timers' = timers
     /\ \A p \in DOMAIN pings :
          (PingTick(p) /\ StateName(st) # "Connected")
            => pings'[p].state # "active"]_vars

\* ---- C32 ----
\* the frame that the send call of a task writes when it succeeds
FrameOf(op, args) ==
  CASE op = "sendLocation" ->
         JsonStringify(Envelope("location",
           [k \in {"latitude", "longitude"} |->
              IF k = "latitude" THEN args[1] ELSE args[2]])).json
    [] op = "notifyPhotoCapture" ->
         JsonStringify(Envelope("photo_capture",
           [k \in {"photoId", "metadata"} |->
              IF k = "photoId" THEN args[1] ELSE args[2]])).json
    [] OTHER -> JsonStringify(Envelope("status", EmptyData)).json

\* C32: there is no outbox.  Frames are written only by the task of a send
\* call that returns true: one frame, the frame of that call, to the
\* Transport that is the Manager's open socket at the time of the call; a
\* send that returns false writes nothing, and no other task (an open after
\* a reconnect in particular) writes a frame.
C32_NoOutbox ==
  [][/\ Len(ev'.out) = ev'.writes /\ Len(ev'.outTo) = ev'.writes
     /\ ev'.op \notin SendOps => ev'.writes = 0
     /\ ev'.op \in SendOps =>
          IF ev'.ret
          THEN /\ ev'.out = <<FrameOf(ev'.op, ev'.args)>>
               /\ ev'.outTo = <<st.socket>>
               /\ st.isConnected
               /\ socks[st.socket].readyState = "OPEN"
          ELSE ev'.writes = 0]_vars

\* a send that succeeds on a Transport opened by a connect() made after a
\* reconnect timer had fired: its one frame went to that Transport
C32_Witness ==
  /\ ev.op \in SendOps /\ ev.ret /\ ev.writes = 1
  /\ st.isConnected /\ st.socket > 0
  /\ ev.outTo = <<st.socket>>
  /\ socks[st.socket].scope.reconnectAttempts > 0

\* ---- C33 ----
\* C33 (as claimed): when a callback calls addListener or removeListener
\* while a frame is being delivered, the delivery is not aborted, and every
\* callback that was in the ListenerSet when the delivery started is
\* invoked exactly once for that frame.
C33_EditDuringDelivery ==
  [][(ev'.op = "message" /\ ev'.edited > 0)
       => /\ ev'.caught = 0
          /\ \A cb \in Members(st.listeners) :
               TimesNotified(ev'.notified, cb) = 1]_vars

\* ---- C34 ----
\* C34 (as claimed): after the provider is unmounted no Transport is open,
\* no reconnect timer is pending and no ping interval is running.
C34_Teardown ==
  hist.torn
    => /\ \A i \in DOMAIN socks : socks[i].readyState # "OPEN"
       /\ PendingTimers = {}
       /\ ActivePings = {}

\* ---- C35 ----
\* C35 (as claimed): while the Manager holds an open Transport, an open,
\* error or close event of any other Transport leaves isConnected,
\* isConnecting and the socket handle as they are and schedules no reconnect.
C35_StaleFencing ==
  [][\A id \in DOMAIN socks :
       (/\ IsOpen(World, st.socket)
        /\ st.isConnected
        /\ id # st.socket
        /\ \/ TransportOpen(id)
           \/ TransportFail(id)
           \/ \E code \in CloseCodes : TransportClose(id, code))
         => /\ st'.isConnected = st.isConnected
            /\ st'.isConnecting = st.isConnecting
            /\ st'.socket = st.socket
            /\ ev'.sched = 0]_vars

\* ---- C36 ----
\* C36 (as claimed): the first open, error or close that a Transport reports
\* settles the promise of the connect() call that created it, and no later
\* event of that Transport settles it again.
C36_PromiseSettles ==
  [][\A id \in DOMAIN socks :
       (\/ TransportOpen(id)
        \/ TransportFail(id)
        \/ \E code \in CloseCodes : TransportClose(id, code)
        \/ \E code \in CloseCodes : TransportCloseUnopened(id, code))
         => IF socks[id].promise = "pending"
            THEN ev'.settled \in {"resolved", "rejected"}
            ELSE ev'.settled = "none"]_vars

\* ---- C37 ----
\* C37 (as claimed): while the Manager is Connected no reconnect timer is
\* pending, and no timer task runs in the Connected state.
C37_NoTimerWhileConnected ==
  /\ (st.isConnected /\ IsOpen(World, st.socket)) => PendingTimers = {}
  /\ ev.op = "timer" => ev.pre # "Connected"

\* ---- C38 ----
\* C38 (as claimed): a reconnect timer that fires while the app is not
\* active, or while the network is unavailable, opens no Transport.
C38_NoAutoOpenInBackgroundOrOffline ==
  [][(/\ \E t \in DOMAIN timers : TimerFire(t)
      /\ (st.appState # "active" \/ ~st.isNetworkAvailable))
       => ev'.opens = 0]_vars

\* ---- C39 ----
\* C39 (as claimed): a send(type, payload) that succeeds writes one envelope
\* whose type field is the type argument and whose timestamp is the stamp
\* taken by the send, whatever keys the payload has.
C39_DiscriminatorKept ==
  (ev.op = "send" /\ ev.ret)
    => /\ Len(ev.out) = 1
       /\ ev.out[1].type = ev.args[1]
       /\ ev.out[1].timestamp = Now

====
